---- MODULE Spec2Model ----
(***************************************************************************)
(* A model of cleanup.py: the name normalisers, the fuzzy matcher, the     *)
(* DirectoryManager registry, the analysis pass that builds the move plan, *)
(* and the executor that moves kept files and deletes duplicates.          *)
(*                                                                         *)
(* Python strings are modelled as sequences of one-character strings, so   *)
(* that the regular-expression steps of the source act on characters.      *)
(* The only whitespace character of the model is the space, and no string  *)
(* holds a line break.                                                     *)
(***************************************************************************)
EXTENDS Integers, Sequences, FiniteSets, TLC

VARIABLES
    input,              \* the argument(s) a pure function is applied to
    call,               \* the last call made and what it returned
    artist_mappings,    \* DirectoryManager.artist_mappings
    canonical_cases,    \* DirectoryManager.canonical_cases
    album_mappings,     \* DirectoryManager.album_mappings
    files,              \* the audio files under the root, in traversal order
    pos,                \* the index in files of the next file to analyze
    proposed_moves,     \* analyze_music_directory: destination directory -> entries
    unique_files,       \* analyze_music_directory: digest -> the kept file's path
    duplicates,         \* analyze_music_directory: digest -> duplicate paths
    skipped_files,      \* analyze_music_directory: the skip list
    pc,                 \* where the run is: analyze, moves, duplicates, done
    cur,                \* execute_changes: the position of its loops
    results,            \* execute_changes: its counters and error list
    disk,               \* the files on disk: path -> content digest
    log                 \* the file system calls execute_changes has made

vars == <<input, call, artist_mappings, canonical_cases, album_mappings,
          files, pos, proposed_moves, unique_files, duplicates, skipped_files,
          pc, cur, results, disk, log>>

registry == <<artist_mappings, canonical_cases, album_mappings>>

plan == <<proposed_moves, unique_files, duplicates, skipped_files>>

run == <<files, pos, proposed_moves, unique_files, duplicates, skipped_files,
         pc, cur, results, disk, log>>

(***************************************************************************)
(* Bounds of the model.                                                    *)
(***************************************************************************)
MaxNameLen == 6

(***************************************************************************)
(* Characters and strings.                                                 *)
(***************************************************************************)
UpperLetters == <<"A", "B", "C", "D", "E", "F", "G", "H", "I", "J", "K", "L", "M",
                  "N", "O", "P", "Q", "R", "S", "T", "U", "V", "W", "X", "Y", "Z">>

LowerLetters == <<"a", "b", "c", "d", "e", "f", "g", "h", "i", "j", "k", "l", "m",
                  "n", "o", "p", "q", "r", "s", "t", "u", "v", "w", "x", "y", "z">>

Digits == <<"0", "1", "2", "3", "4", "5", "6", "7", "8", "9">>

Range(f) == {f[i] : i \in DOMAIN f}

UpperChars == Range(UpperLetters)

\* the characters of the regular expression class \w
WordChars == UpperChars \cup Range(LowerLetters) \cup Range(Digits) \cup {"_"}

\* str.lower() on the upper-case letters
LowerOf == [c \in UpperChars |-> LowerLetters[CHOOSE i \in 1..26 : UpperLetters[i] = c]]

\* str.lower() on one character
LowerChar(c) == IF c \in UpperChars THEN LowerOf[c] ELSE c

\* str.lower()
Lower(s) == [i \in 1..Len(s) |-> LowerChar(s[i])]

\* the regular expression class \w
IsWord(c) == c \in WordChars

\* the regular expression class \s
IsSpace(c) == c = " "

\* s holds the literal w at index i
HasAt(s, i, w) ==
    /\ i >= 1
    /\ i + Len(w) - 1 <= Len(s)
    /\ \A j \in 1..Len(w) : s[i + j - 1] = w[j]

\* s holds a whitespace character at index i
SpaceAt(s, i) == i >= 1 /\ i <= Len(s) /\ IsSpace(s[i])

\* re.sub(r'[^\w\s]', '', s.lower())
normalize_string(s) == SelectSeq(Lower(s), LAMBDA c : IsWord(c) \/ IsSpace(c))

(***************************************************************************)
(* normalize_artist_name.  Each featuring pattern ends in .*$, so a match  *)
(* starts at the leftmost index where the pattern's head matches and runs  *)
(* to the end of the string: the substitution cuts the string there.       *)
(***************************************************************************)
FeaturingHead(p, s, i) ==
    CASE p = 1 -> HasAt(s, i, <<",">>)
      [] p = 2 -> SpaceAt(s, i) /\ HasAt(s, i + 1, <<"f", "e", "a", "t", ".">>)
      [] p = 3 -> SpaceAt(s, i) /\ HasAt(s, i + 1, <<"f", "t", ".">>)
      [] p = 4 -> SpaceAt(s, i) /\ HasAt(s, i + 1, <<"w", "i", "t", "h">>) /\ SpaceAt(s, i + 5)
      [] p = 5 -> SpaceAt(s, i) /\ HasAt(s, i + 1, <<"x">>) /\ SpaceAt(s, i + 2)
      [] p = 6 -> /\ SpaceAt(s, i)
                  /\ HasAt(s, i + 1, <<"v", "s">>)
                  /\ \/ SpaceAt(s, i + 3)
                     \/ HasAt(s, i + 3, <<".">>) /\ SpaceAt(s, i + 4)
      [] p = 7 -> /\ SpaceAt(s, i)
                  /\ HasAt(s, i + 1, <<"&">>)
                  /\ SpaceAt(s, i + 2)
                  /\ ~(HasAt(s, i + 3, <<"t", "h", "e">>) /\ SpaceAt(s, i + 6))

\* re.sub(featuring_patterns[p], '', s)
CutFeaturing(p, s) ==
    LET hits == {i \in 1..Len(s) : FeaturingHead(p, s, i)}
    IN  IF hits = {} THEN s
        ELSE SubSeq(s, 1, (CHOOSE i \in hits : \A j \in hits : i <= j) - 1)

RECURSIVE ApplyFeaturing(_, _)
\* the loop over featuring_patterns, from pattern p on
ApplyFeaturing(p, s) ==
    IF p > 7 THEN s ELSE ApplyFeaturing(p + 1, CutFeaturing(p, s))

\* re.sub(r'[^\w\s&]', '', s)
KeepWordSpaceAmp(s) == SelectSeq(s, LAMBDA c : IsWord(c) \/ IsSpace(c) \/ c = "&")

RECURSIVE CollapseFrom(_, _)
\* re.sub(r'\s+', ' ', s), from index i on
CollapseFrom(s, i) ==
    IF i > Len(s) THEN <<>>
    ELSE IF IsSpace(s[i])
         THEN IF i > 1 /\ IsSpace(s[i - 1])
              THEN CollapseFrom(s, i + 1)
              ELSE <<" ">> \o CollapseFrom(s, i + 1)
         ELSE <<s[i]>> \o CollapseFrom(s, i + 1)

CollapseSpaces(s) == CollapseFrom(s, 1)

RECURSIVE AndTheFrom(_, _)
\* re.sub(r'\sand\sthe\s', ' & the ', s), from index i on: the matches are
\* taken left to right and do not overlap
AndTheFrom(s, i) ==
    IF i > Len(s) THEN <<>>
    ELSE IF /\ SpaceAt(s, i)
            /\ HasAt(s, i + 1, <<"a", "n", "d">>)
            /\ SpaceAt(s, i + 4)
            /\ HasAt(s, i + 5, <<"t", "h", "e">>)
            /\ SpaceAt(s, i + 8)
         THEN <<" ", "&", " ", "t", "h", "e", " ">> \o AndTheFrom(s, i + 9)
         ELSE <<s[i]>> \o AndTheFrom(s, i + 1)

AndThe(s) == AndTheFrom(s, 1)

\* str.strip(): drop the leading and trailing characters that are in chars
StripChars(s, chars) ==
    LET keep == {i \in 1..Len(s) : s[i] \notin chars}
    IN  IF keep = {} THEN <<>>
        ELSE SubSeq(s, CHOOSE i \in keep : \A j \in keep : i <= j,
                       CHOOSE i \in keep : \A j \in keep : i >= j)

Strip(s) == StripChars(s, {" "})

normalize_artist_name(artist) ==
    Strip(AndThe(CollapseSpaces(KeepWordSpaceAmp(ApplyFeaturing(1, Lower(artist))))))

(***************************************************************************)
(* fuzz.ratio(s1, s2): 100 for equal strings, 0 when either is empty, and  *)
(* otherwise 100 * 2 * M / (len(s1) + len(s2)) rounded to an integer, M    *)
(* being the number of matched characters (the longest common subsequence  *)
(* of the edit-distance ratio).                                            *)
(***************************************************************************)
RECURSIVE LcsLen(_, _, _, _)
\* the length of the longest common subsequence of a[i..] and b[j..]
LcsLen(a, b, i, j) ==
    IF i > Len(a) \/ j > Len(b) THEN 0
    ELSE IF a[i] = b[j] THEN 1 + LcsLen(a, b, i + 1, j + 1)
    ELSE LET x == LcsLen(a, b, i + 1, j)
             y == LcsLen(a, b, i, j + 1)
         IN  IF x >= y THEN x ELSE y

\* int(round(num / den)), Python rounding a half to the even integer
RoundDiv(num, den) ==
    LET q == num \div den
        r == num % den
    IN  IF 2 * r < den THEN q
        ELSE IF 2 * r > den THEN q + 1
        ELSE IF q % 2 = 0 THEN q ELSE q + 1

fuzz_ratio(s1, s2) ==
    IF s1 = s2 THEN 100
    ELSE IF Len(s1) = 0 \/ Len(s2) = 0 THEN 0
    ELSE RoundDiv(200 * LcsLen(s1, s2, 1, 1), Len(s1) + Len(s2))

\* the value None, which is no string
None == <<"None">>

\* the similarity score find_similar_name gives an existing name
Score(name, existing) == fuzz_ratio(normalize_string(name), normalize_string(existing))

\* the mutant of BetterMatch: a later name with an equal score replaces the best
BetterMatchOrEqual(ratio, highest_ratio, threshold) ==
    ratio >= highest_ratio /\ ratio >= threshold

\* the test "ratio > highest_ratio and ratio >= threshold"
BetterMatch(ratio, highest_ratio, threshold) ==
    ratio > highest_ratio /\ ratio >= threshold

RECURSIVE FindFrom(_, _, _, _, _, _)
\* the loop of find_similar_name from index i on, with the best match so far
FindFrom(name, existing_names, threshold, i, highest_ratio, best_match) ==
    IF i > Len(existing_names) THEN best_match
    ELSE LET ratio == Score(name, existing_names[i])
         IN  IF BetterMatch(ratio, highest_ratio, threshold)
             THEN FindFrom(name, existing_names, threshold, i + 1, ratio, existing_names[i])
             ELSE FindFrom(name, existing_names, threshold, i + 1, highest_ratio, best_match)

find_similar_name(name, existing_names, threshold) ==
    FindFrom(name, existing_names, threshold, 1, 0, None)

\* the default of find_similar_name's threshold parameter
DefaultThreshold == 85

(***************************************************************************)
(* DirectoryManager.  artist_mappings and canonical_cases are functions    *)
(* from normalised keys to spellings.  album_mappings is a function from   *)
(* canonical artists to dictionaries; a dictionary is the sequence of its  *)
(* [key, value] entries in insertion order, the order values() iterates.   *)
(***************************************************************************)
Put(f, k, v) == [x \in DOMAIN f \cup {k} |-> IF x = k THEN v ELSE f[x]]

DictKeys(d) == {d[i].key : i \in DOMAIN d}

DictGet(d, k) == d[CHOOSE i \in DOMAIN d : d[i].key = k].value

DictValues(d) == [i \in DOMAIN d |-> d[i].value]

\* album_mappings[artist] of the defaultdict(dict)
AlbumsOf(alb, artist) == IF artist \in DOMAIN alb THEN alb[artist] ELSE <<>>

\* the truth value Python gives a string or None
Truthy(x) == x # None /\ x # <<>>

\* the mutant of get_canonical_artist: the longer spelling is preferred before
\* the stored mapping is looked up
get_canonical_artist_longer_first(am, cc, artist) ==
    LET normalized == normalize_artist_name(artist)
    IN  IF normalized \notin DOMAIN cc \/ Len(artist) > Len(cc[normalized])
        THEN [am |-> Put(am, normalized, artist), cc |-> Put(cc, normalized, artist),
              ret |-> artist]
        ELSE [am |-> am, cc |-> cc, ret |-> am[normalized]]

\* get_canonical_artist on the mappings am (artist_mappings) and cc
\* (canonical_cases): the mappings after the call and the value returned
get_canonical_artist(am, cc, artist) ==
    LET normalized == normalize_artist_name(artist)
    IN  IF normalized \in DOMAIN am
        THEN [am |-> am, cc |-> cc, ret |-> am[normalized]]
        ELSE IF normalized \notin DOMAIN cc
        THEN [am |-> Put(am, normalized, artist), cc |-> Put(cc, normalized, artist),
              ret |-> artist]
        ELSE IF Len(artist) > Len(cc[normalized])
        THEN [am |-> Put(am, normalized, artist), cc |-> Put(cc, normalized, artist),
              ret |-> artist]
        ELSE [am |-> am, cc |-> cc, ret |-> cc[normalized]]

\* the mutant of AliasTarget: the alias is stored under the raw album
AliasTargetRaw(album, similar_album) == album

\* the value stored for a new key that matched an existing album
AliasTarget(album, similar_album) == similar_album

\* get_canonical_album on the mappings: the mappings after the call and the
\* value returned
get_canonical_album(am, cc, alb, artist, album) ==
    LET r == get_canonical_artist(am, cc, artist)
        canonical_artist == r.ret
        normalized_album == normalize_string(album)
        d == AlbumsOf(alb, canonical_artist)
        similar_album == find_similar_name(album, DictValues(d), DefaultThreshold)
    IN  IF normalized_album \in DictKeys(d)
        THEN [am |-> r.am, cc |-> r.cc, alb |-> Put(alb, canonical_artist, d),
              ret |-> DictGet(d, normalized_album)]
        ELSE IF Truthy(similar_album)
        THEN [am |-> r.am, cc |-> r.cc,
              alb |-> Put(alb, canonical_artist,
                          Append(d, [key |-> normalized_album,
                                     value |-> AliasTarget(album, similar_album)])),
              ret |-> similar_album]
        ELSE [am |-> r.am, cc |-> r.cc,
              alb |-> Put(alb, canonical_artist,
                          Append(d, [key |-> normalized_album, value |-> album])),
              ret |-> album]

(***************************************************************************)
(* File names, metadata and paths.                                         *)
(***************************************************************************)
\* the characters of invalid_chars
InvalidChars == {"<", ">", ":", "\"", "/", "\\", "|", "?", "*"}

sanitize_filename(filename) ==
    StripChars(SelectSeq(filename, LAMBDA c : c \notin InvalidChars), {".", " "})

\* s.split('/')[0]
BeforeSlash(s) ==
    LET hits == {i \in 1..Len(s) : s[i] = "/"}
    IN  IF hits = {} THEN s
        ELSE SubSeq(s, 1, (CHOOSE i \in hits : \A j \in hits : i <= j) - 1)

\* s.zfill(2)
Zfill2(s) ==
    IF Len(s) >= 2 THEN s
    ELSE IF Len(s) = 1 THEN (IF s[1] \in {"+", "-"} THEN <<s[1], "0">> ELSE <<"0", s[1]>>)
    ELSE <<"0", "0">>

\* tags.get(key, [''])[0]: the tag's value, '' for a tag that is absent
TagOr(tags, key) == IF tags[key] = None THEN <<>> ELSE tags[key]

\* the value None where a metadata dictionary is expected
NoMetadata == [artist |-> None, album |-> None, title |-> None, tracknumber |-> None]

\* get_audio_metadata on a file whose tags are tags; tags.readable is false for
\* a file that has no tags or cannot be parsed, and a tag that is absent is None
get_audio_metadata(tags) ==
    IF ~tags.readable THEN NoMetadata
    ELSE IF tags.title = None \/ tags.artist = None THEN NoMetadata
    ELSE [artist |-> TagOr(tags, "artist"),
          album |-> TagOr(tags, "album"),
          title |-> TagOr(tags, "title"),
          tracknumber |-> Zfill2(BeforeSlash(TagOr(tags, "tracknumber")))]

\* os.path.splitext
Splitext(path) ==
    LET seps == {i \in 1..Len(path) : path[i] = "/"}
        sep == IF seps = {} THEN 0 ELSE CHOOSE i \in seps : \A j \in seps : i >= j
        dots == {i \in (sep + 1)..Len(path) : path[i] = "."}
        dot == IF dots = {} THEN 0 ELSE CHOOSE i \in dots : \A j \in dots : i >= j
    IN  IF dot > 0 /\ \E k \in (sep + 1)..(dot - 1) : path[k] # "."
        THEN [root |-> SubSeq(path, 1, dot - 1), ext |-> SubSeq(path, dot, Len(path))]
        ELSE [root |-> path, ext |-> <<>>]

generate_new_filename(metadata, original_path) ==
    LET ext == Lower(Splitext(original_path).ext)
        track_num == metadata.tracknumber
        title == sanitize_filename(metadata.title)
    IN  IF track_num # <<>>
        THEN track_num \o <<" ", "-", " ">> \o title \o ext
        ELSE title \o ext

\* os.path.join of two components
Join(a, b) ==
    IF Len(b) > 0 /\ b[1] = "/" THEN b
    ELSE IF Len(a) = 0 \/ a[Len(a)] = "/" THEN a \o b
    ELSE a \o <<"/">> \o b

RECURSIVE IntToStr(_)
\* str(n) of a natural number
IntToStr(n) ==
    IF n < 10 THEN <<Digits[n + 1]>>
    ELSE IntToStr(n \div 10) \o <<Digits[(n % 10) + 1]>>

\* os.path.exists on a path, paths being the paths that exist
Exists(paths, path) == path \in paths

\* the mutant of DestPath: the destination is not checked for an existing file
DestPathUnchecked(paths, dest_dir, new_filename) == Join(dest_dir, new_filename)

\* the path move_and_rename_file renames to: the first of filename,
\* filename_1, filename_2, ... that does not exist in dest_dir
DestPath(paths, dest_dir, new_filename) ==
    LET dest_path == Join(dest_dir, new_filename)
        parts == Splitext(new_filename)
        Numbered(counter) ==
            Join(dest_dir, parts.root \o <<"_">> \o IntToStr(counter) \o parts.ext)
    IN  IF Exists(paths, dest_path)
        THEN Numbered(CHOOSE c \in 1..(Cardinality(paths) + 1) :
                          /\ ~Exists(paths, Numbered(c))
                          /\ \A b \in 1..(c - 1) : Exists(paths, Numbered(b)))
        ELSE dest_path

\* os.rename(src, dst) on the files of the disk: a file at dst is replaced
Rename(d, src, dst) ==
    [p \in (DOMAIN d \ {src}) \cup {dst} |-> IF p = dst THEN d[src] ELSE d[p]]

\* os.remove(path)
Remove(d, path) == [p \in DOMAIN d \ {path} |-> d[p]]

(***************************************************************************)
(* Inputs of the normaliser: every string of at most MaxNameLen characters *)
(* over a small alphabet, and some artist names of the usual shapes.       *)
(***************************************************************************)
StringsUpTo(chars, n) == UNION {[1..k -> chars] : k \in 0..n}

ArtistChars == {"a", "x", " ", "!", "&"}

ArtistSamples == {
    <<"A", " ", "f", "e", "a", "t", ".", " ", "B">>,
    <<"A", " ", "f", "t", ".", " ", "B">>,
    <<"a", " ", "w", "i", "t", "h", " ", "b">>,
    <<"a", " ", "v", "s", ".", " ", "b">>,
    <<"a", " ", "V", "s", " ", "b">>,
    <<"A", ",", " ", "B">>,
    <<"A", " ", "&", " ", "T", "h", "e", " ", "B", "s">>,
    <<"A", " ", "a", "n", "d", " ", "t", "h", "e", " ", "B", "s">>,
    <<"A", " ", "&", " ", "t", "h", "e", " ", "B", " ", "&", " ", "C">>,
    <<"B", "e", "a", "t", "l", "e", "s">>,
    <<"B", ".", "E", ".", "A", ".", "T", ".", "L", ".", "E", ".", "S">> }

ArtistInputs == StringsUpTo(ArtistChars, MaxNameLen) \cup ArtistSamples

NoCall == [op |-> "none"]

RegistryEmpty ==
    /\ artist_mappings = <<>>
    /\ canonical_cases = <<>>
    /\ album_mappings = <<>>

NoResults == [successful_moves |-> 0, failed_moves |-> 0, successful_deletions |-> 0,
              failed_deletions |-> 0, errors |-> <<>>]

\* no directory is being analyzed
NoRun ==
    /\ files = <<>>
    /\ pos = 1
    /\ proposed_moves = <<>>
    /\ unique_files = <<>>
    /\ duplicates = <<>>
    /\ skipped_files = <<>>
    /\ pc = "idle"
    /\ cur = [di |-> 1, fi |-> 0, hi |-> 1, pi |-> 1]
    /\ results = NoResults
    /\ disk = <<>>
    /\ log = <<>>

(***************************************************************************)
(* The normaliser applied to an input, and applied again to its result.    *)
(***************************************************************************)
InitNormalize ==
    /\ input \in ArtistInputs
    /\ call = NoCall
    /\ RegistryEmpty
    /\ NoRun

NormalizeArtist ==
    /\ call.op = "none"
    /\ call' = [op |-> "normalize_artist_name", arg |-> input,
                ret |-> normalize_artist_name(input)]
    /\ UNCHANGED <<input, registry, run>>

NormalizeArtistAgain ==
    /\ call.op = "normalize_artist_name"
    /\ call' = [op |-> "normalize_artist_name again", arg |-> call.ret,
                ret |-> normalize_artist_name(call.ret)]
    /\ UNCHANGED <<input, registry, run>>

NextNormalize == NormalizeArtist \/ NormalizeArtistAgain

SpecNormalize == InitNormalize /\ [][NextNormalize]_vars

\* C7: normalize_artist_name is idempotent: normalising a normalised name
\* gives the same name again.
C7_Idempotent ==
    call.op = "normalize_artist_name again" => call.ret = call.arg

(***************************************************************************)
(* find_similar_name applied to a name, a list of existing names and a     *)
(* threshold.                                                              *)
(***************************************************************************)
MaxExisting == 3

AlbumNames == {
    <<>>,
    <<"a", "b", "c">>,
    <<"A", "b", "c", "!">>,
    <<"a", "b", "c", "d">>,
    <<"b", "c", "d">> }

Thresholds == 0..100

InitFind ==
    /\ input \in [name : AlbumNames,
                  existing_names : UNION {[1..k -> AlbumNames] : k \in 0..MaxExisting},
                  threshold : Thresholds]
    /\ call = NoCall
    /\ RegistryEmpty
    /\ NoRun

FindSimilarName ==
    /\ call.op = "none"
    /\ call' = [op |-> "find_similar_name",
                ret |-> find_similar_name(input.name, input.existing_names, input.threshold)]
    /\ UNCHANGED <<input, registry, run>>

NextFind == FindSimilarName

SpecFind == InitFind /\ [][NextFind]_vars

\* the scores find_similar_name gives the existing names, in their order
Scores(name, existing_names) ==
    [i \in DOMAIN existing_names |-> Score(name, existing_names[i])]

\* the first index of the greatest of the scores
FirstBest(scores) ==
    CHOOSE i \in DOMAIN scores :
        /\ \A j \in DOMAIN scores : scores[j] <= scores[i]
        /\ \A j \in 1..(i - 1) : scores[j] < scores[i]

\* C8 as stated: for every threshold in 0..100 the result is None exactly when
\* no existing name scores >= threshold, and is otherwise the first existing
\* name whose score is the greatest of the collection.
C8_BestOrNoneAnyThreshold ==
    call.op = "find_similar_name" =>
        \A scores \in {Scores(input.name, input.existing_names)} :
            IF \A i \in DOMAIN scores : scores[i] < input.threshold
            THEN call.ret = None
            ELSE /\ call.ret = input.existing_names[FirstBest(scores)]
                 /\ scores[FirstBest(scores)] >= input.threshold

\* C8 amended: the result is None exactly when no existing name has a score
\* that is >= threshold and greater than 0, and is otherwise the first
\* existing name whose score is the greatest of the collection.
C8_BestOrNone ==
    call.op = "find_similar_name" =>
        \A scores \in {Scores(input.name, input.existing_names)} :
            IF \A i \in DOMAIN scores : scores[i] < input.threshold \/ scores[i] = 0
            THEN call.ret = None
            ELSE /\ call.ret = input.existing_names[FirstBest(scores)]
                 /\ scores[FirstBest(scores)] >= input.threshold
                 /\ scores[FirstBest(scores)] > 0

\* two different existing names reach the greatest score, which clears the
\* threshold, and the first of them is returned
C8_Witness ==
    /\ call.op = "find_similar_name"
    /\ call.ret # None
    /\ \E scores \in {Scores(input.name, input.existing_names)} :
          \E j \in DOMAIN scores :
              /\ FirstBest(scores) < j
              /\ scores[j] = scores[FirstBest(scores)]
              /\ input.existing_names[j] # input.existing_names[FirstBest(scores)]
              /\ scores[j] >= input.threshold
              /\ call.ret = input.existing_names[FirstBest(scores)]

(***************************************************************************)
(* One DirectoryManager, called in any order.                              *)
(***************************************************************************)
RegistryArtists == {
    <<"a">>,
    <<"A", "!">>,
    <<"a", " ", "x", " ", "b">>,
    <<"b">> }

RegistryAlbums == AlbumNames \ {<<>>}

InitRegistry ==
    /\ input = <<>>
    /\ call = NoCall
    /\ RegistryEmpty
    /\ NoRun

GetCanonicalArtist ==
    \E artist \in RegistryArtists :
        \E r \in {get_canonical_artist(artist_mappings, canonical_cases, artist)} :
            /\ artist_mappings' = r.am
            /\ canonical_cases' = r.cc
            /\ call' = [op |-> "get_canonical_artist", artist |-> artist, ret |-> r.ret]
            /\ UNCHANGED <<input, album_mappings, run>>

GetCanonicalAlbum ==
    \E artist \in RegistryArtists, album \in RegistryAlbums :
        \E r \in {get_canonical_album(artist_mappings, canonical_cases, album_mappings,
                                       artist, album)} :
            /\ artist_mappings' = r.am
            /\ canonical_cases' = r.cc
            /\ album_mappings' = r.alb
            /\ call' = [op |-> "get_canonical_album", artist |-> artist, album |-> album,
                        ret |-> r.ret]
            /\ UNCHANGED <<input, run>>

NextRegistry == GetCanonicalArtist \/ GetCanonicalAlbum

SpecRegistry == InitRegistry /\ [][NextRegistry]_vars

\* C3 as stated (longer wins): when a spelling is resolved whose key already
\* has a stored canonical form that is strictly shorter, the longer spelling
\* becomes the canonical form stored and returned for that key.
C3_LongerWins ==
    [][call'.op = "get_canonical_artist" =>
          \A k \in {normalize_artist_name(call'.artist)} :
              (k \in DOMAIN canonical_cases /\ Len(call'.artist) > Len(canonical_cases[k]))
                  => /\ call'.ret = call'.artist
                     /\ artist_mappings'[k] = call'.artist
                     /\ canonical_cases'[k] = call'.artist]_vars

MaxScore(scores) ==
    IF DOMAIN scores = {} THEN 0 ELSE scores[FirstBest(scores)]

\* C5: get_canonical_album returns the stored album of a registered key;
\* otherwise a best-scoring registered album that scores >= 85, registering
\* the new key as its alias; otherwise the raw album, registered as new.
\* Entries once registered stay as they are.
C5_AlbumResolution ==
    [][call'.op = "get_canonical_album" =>
          \A ca \in {artist_mappings'[normalize_artist_name(call'.artist)]} :
          \A key \in {normalize_string(call'.album)} :
          \A d \in {AlbumsOf(album_mappings, ca)} :
          \A after \in {AlbumsOf(album_mappings', ca)} :
          \A scores \in {Scores(call'.album, DictValues(d))} :
              /\ \A a \in DOMAIN album_mappings :
                     /\ a \in DOMAIN album_mappings'
                     /\ a # ca => album_mappings'[a] = album_mappings[a]
              /\ \A i \in DOMAIN d : after[i] = d[i]
              /\ key \in DictKeys(d) =>
                     /\ call'.ret = DictGet(d, key)
                     /\ after = d
              /\ (key \notin DictKeys(d) /\ MaxScore(scores) >= DefaultThreshold) =>
                     /\ \E i \in DOMAIN d :
                            /\ call'.ret = d[i].value
                            /\ scores[i] = MaxScore(scores)
                     /\ after = Append(d, [key |-> key, value |-> call'.ret])
              /\ (key \notin DictKeys(d) /\ MaxScore(scores) < DefaultThreshold) =>
                     /\ call'.ret = call'.album
                     /\ after = Append(d, [key |-> key, value |-> call'.album])]_vars

\* an album was resolved to a registered album with another key, and its own
\* key is now an alias of that album
C5_Witness ==
    /\ call.op = "get_canonical_album"
    /\ normalize_string(call.ret) # normalize_string(call.album)
    /\ \E a \in DOMAIN album_mappings :
          /\ normalize_string(call.album) \in DictKeys(album_mappings[a])
          /\ DictGet(album_mappings[a], normalize_string(call.album)) = call.ret
          /\ Len(album_mappings[a]) >= 3

(***************************************************************************)
(* A run of the tool on a directory: analyze_music_directory, one step per *)
(* file of the traversal, and then execute_changes, one step per           *)
(* directory created, file moved and duplicate removed.                    *)
(***************************************************************************)
MaxFiles == 3

root_dir == <<"r">>

\* the directory of artist A and album B under the root
HomeDir == <<"r", "/", "A", "/", "B">>

Tags(artist, album, title, tracknumber) ==
    [readable |-> TRUE, artist |-> artist, album |-> album, title |-> title,
     tracknumber |-> tracknumber]

\* a file without tags, or whose tags cannot be parsed
NoTags ==
    [readable |-> FALSE, artist |-> None, album |-> None, title |-> None,
     tracknumber |-> None]

\* the tags a file of the root may hold
TagChoices == {
    Tags(<<"A">>, <<"B">>, <<"t">>, <<"3">>),
    Tags(<<"a", "!">>, <<"b">>, <<"t", ":", "?">>, <<"3", "/", "1", "2">>),
    Tags(<<"A">>, <<"B">>, <<"t">>, None),
    Tags(<<>>, <<"B">>, <<"t">>, <<"3">>),
    Tags(None, <<"B">>, <<"t">>, <<"3">>) }

Contents == {1, 2}

\* a file as the traversal finds it
File(dirpath, filename, tags, content) ==
    [dirpath |-> dirpath, filename |-> filename, tags |-> tags, content |-> content]

\* the files that may be at index i of the traversal: a file in the root
\* under a name of its own, with any of the tags; a file in HomeDir under the
\* name the plan gives a file of those tags, tagged so or not tagged; a file
\* without tags under the first numbered name
FileChoices(i) ==
    {File(root_dir, <<"F", IntToStr(i)[1], ".", "M", "P", "3">>, tg, c) :
        tg \in TagChoices, c \in Contents}
    \cup
    {File(HomeDir, <<"0", "3", " ", "-", " ", "t", ".", "m", "p", "3">>, tg, c) :
        tg \in {Tags(<<"A">>, <<"B">>, <<"t">>, <<"3">>), NoTags}, c \in Contents}
    \cup
    {File(HomeDir, <<"0", "3", " ", "-", " ", "t", "_", "1", ".", "m", "p", "3">>,
          NoTags, 1)}

\* full_path = os.path.join(dirpath, filename)
PathOf(f) == Join(f.dirpath, f.filename)

\* file f may follow the files fs in a traversal: os.walk goes top down, so
\* the files of the root come before those below it, and no two files have
\* the same path
MayFollow(fs, f) ==
    \A i \in DOMAIN fs :
        /\ PathOf(fs[i]) # PathOf(f)
        /\ ~(fs[i].dirpath = HomeDir /\ f.dirpath = root_dir)

RECURSIVE TraversalsOf(_)
\* the traversals of n files
TraversalsOf(n) ==
    IF n = 0 THEN {<<>>}
    ELSE UNION {{Append(fs, f) : f \in {g \in FileChoices(n) : MayFollow(fs, g)}} :
                   fs \in TraversalsOf(n - 1)}

Traversals == UNION {TraversalsOf(n) : n \in 0..MaxFiles}

Init ==
    /\ input = <<>>
    /\ call = NoCall
    /\ RegistryEmpty
    /\ files \in Traversals
    /\ pos = 1
    /\ proposed_moves = <<>>
    /\ unique_files = <<>>
    /\ duplicates = <<>>
    /\ skipped_files = <<>>
    /\ pc = "analyze"
    /\ cur = [di |-> 1, fi |-> 0, hi |-> 1, pi |-> 1]
    /\ results = NoResults
    /\ disk = [p \in {PathOf(files[i]) : i \in DOMAIN files} |->
                  files[CHOOSE i \in DOMAIN files : PathOf(files[i]) = p].content]
    /\ log = <<>>

MissingMetadata == "Missing required metadata (title/artist)"

ErrorProcessing == "Error processing file"

\* d[key].append(item) on a defaultdict(list) kept as a sequence of
\* [key, items] entries in insertion order
AppendTo(d, key, item) ==
    IF \E i \in DOMAIN d : d[i].key = key
    THEN [i \in DOMAIN d |->
             IF d[i].key = key THEN [d[i] EXCEPT !.items = Append(@, item)] ELSE d[i]]
    ELSE Append(d, [key |-> key, items |-> <<item>>])

\* one iteration of the loop over the music files: the file has no usable
\* metadata and is skipped
SkipFile ==
    /\ pc = "analyze"
    /\ pos <= Len(files)
    /\ get_audio_metadata(files[pos].tags) = NoMetadata
    /\ skipped_files' = Append(skipped_files,
                               [path |-> PathOf(files[pos]), reason |-> MissingMetadata])
    /\ pos' = pos + 1
    /\ UNCHANGED <<input, call, registry, files, proposed_moves, unique_files, duplicates,
                   pc, cur, results, disk, log>>

\* the mutant of AlreadySeen: the lookup never finds the digest
AlreadySeenNever(unique, hash) == FALSE

\* the test "music_file.hash in unique_files"
AlreadySeen(unique, hash) == hash \in DOMAIN unique

\* one iteration of the loop over the music files, for a file with metadata.
\* MusicFile(full_path) reads the file again and may raise: the file is then
\* skipped, after the registry has resolved its names.
AnalyzeFile ==
    /\ pc = "analyze"
    /\ pos <= Len(files)
    /\ get_audio_metadata(files[pos].tags) # NoMetadata
    /\ \E raw \in {get_audio_metadata(files[pos].tags)} :
       \E full_path \in {PathOf(files[pos])} :
       \E ra \in {get_canonical_artist(artist_mappings, canonical_cases, raw.artist)} :
       \E rb \in {get_canonical_album(ra.am, ra.cc, album_mappings, ra.ret, raw.album)} :
       \E metadata \in {[raw EXCEPT !.artist = ra.ret, !.album = rb.ret]} :
       \E raised \in BOOLEAN :
          /\ artist_mappings' = rb.am
          /\ canonical_cases' = rb.cc
          /\ album_mappings' = rb.alb
          /\ IF raised
             THEN /\ skipped_files' = Append(skipped_files,
                                             [path |-> full_path, reason |-> ErrorProcessing])
                  /\ UNCHANGED <<proposed_moves, unique_files, duplicates>>
             ELSE IF AlreadySeen(unique_files, files[pos].content)
             THEN /\ duplicates' = AppendTo(duplicates, files[pos].content, full_path)
                  /\ UNCHANGED <<proposed_moves, unique_files, skipped_files>>
             ELSE /\ unique_files' = Put(unique_files, files[pos].content, full_path)
                  /\ proposed_moves' =
                         AppendTo(proposed_moves,
                                  Join(Join(root_dir, sanitize_filename(ra.ret)),
                                       sanitize_filename(rb.ret)),
                                  [original_path |-> full_path,
                                   current_filename |-> files[pos].filename,
                                   new_filename |-> generate_new_filename(raw, full_path),
                                   metadata |-> metadata])
                  /\ UNCHANGED <<duplicates, skipped_files>>
    /\ pos' = pos + 1
    /\ UNCHANGED <<input, call, files, pc, cur, results, disk, log>>

\* main calls execute_changes when the analysis found anything
StartExecute ==
    /\ pc = "analyze"
    /\ pos > Len(files)
    /\ proposed_moves # <<>> \/ duplicates # <<>> \/ skipped_files # <<>>
    /\ pc' = "moves"
    /\ cur' = [di |-> 1, fi |-> 0, hi |-> 1, pi |-> 1]
    /\ results' = NoResults
    /\ UNCHANGED <<input, call, registry, files, pos, plan, disk, log>>

\* create_directory(new_path) for the next destination directory; when it
\* fails the directory's files are passed over
CreateDirectory ==
    /\ pc = "moves"
    /\ cur.di <= Len(proposed_moves)
    /\ cur.fi = 0
    /\ \E ok \in BOOLEAN :
          /\ log' = Append(log, [op |-> "makedirs", path |-> proposed_moves[cur.di].key,
                                 ok |-> ok])
          /\ IF ok
             THEN /\ cur' = [cur EXCEPT !.fi = 1]
                  /\ UNCHANGED results
             ELSE /\ results' = [results EXCEPT !.errors =
                         Append(@, [failed |-> "create directory",
                                    path |-> proposed_moves[cur.di].key])]
                  /\ cur' = [cur EXCEPT !.di = @ + 1]
    /\ UNCHANGED <<input, call, registry, files, pos, plan, pc, disk>>

\* move_and_rename_file for the next file of the directory; os.rename can
\* succeed only on a source that exists
MoveFile ==
    /\ pc = "moves"
    /\ cur.di <= Len(proposed_moves)
    /\ cur.fi >= 1
    /\ \E file \in {proposed_moves[cur.di].items[cur.fi]} :
       \E dest_path \in {DestPath(DOMAIN disk, proposed_moves[cur.di].key,
                                  file.new_filename)} :
       \E ok \in BOOLEAN :
          /\ ok => file.original_path \in DOMAIN disk
          /\ log' = Append(log, [op |-> "rename", path |-> file.original_path,
                                 dest |-> dest_path, ok |-> ok,
                                 existed |-> dest_path \in DOMAIN disk])
          /\ IF ok
             THEN /\ disk' = Rename(disk, file.original_path, dest_path)
                  /\ results' = [results EXCEPT !.successful_moves = @ + 1]
             ELSE /\ disk' = disk
                  /\ results' = [results EXCEPT
                         !.failed_moves = @ + 1,
                         !.errors = Append(@, [failed |-> "move",
                                               path |-> file.original_path])]
    /\ cur' = IF cur.fi < Len(proposed_moves[cur.di].items)
              THEN [cur EXCEPT !.fi = @ + 1]
              ELSE [cur EXCEPT !.di = @ + 1, !.fi = 0]
    /\ UNCHANGED <<input, call, registry, files, pos, plan, pc>>

\* the loop over the moves is over: the duplicates come next
FinishMoves ==
    /\ pc = "moves"
    /\ cur.di > Len(proposed_moves)
    /\ pc' = "duplicates"
    /\ UNCHANGED <<input, call, registry, files, pos, plan, cur, results, disk, log>>

\* os.remove(dup_path) for the next duplicate
RemoveDuplicate ==
    /\ pc = "duplicates"
    /\ cur.hi <= Len(duplicates)
    /\ \E dup_path \in {duplicates[cur.hi].items[cur.pi]} :
       \E ok \in BOOLEAN :
          /\ ok => dup_path \in DOMAIN disk
          /\ log' = Append(log, [op |-> "remove", path |-> dup_path, ok |-> ok])
          /\ IF ok
             THEN /\ disk' = Remove(disk, dup_path)
                  /\ results' = [results EXCEPT !.successful_deletions = @ + 1]
             ELSE /\ disk' = disk
                  /\ results' = [results EXCEPT
                         !.failed_deletions = @ + 1,
                         !.errors = Append(@, [failed |-> "delete", path |-> dup_path])]
    /\ cur' = IF cur.pi < Len(duplicates[cur.hi].items)
              THEN [cur EXCEPT !.pi = @ + 1]
              ELSE [cur EXCEPT !.hi = @ + 1, !.pi = 1]
    /\ UNCHANGED <<input, call, registry, files, pos, plan, pc>>

\* execute_changes returns its results
FinishExecute ==
    /\ pc = "duplicates"
    /\ cur.hi > Len(duplicates)
    /\ pc' = "done"
    /\ UNCHANGED <<input, call, registry, files, pos, plan, cur, results, disk, log>>

Next ==
    \/ SkipFile
    \/ AnalyzeFile
    \/ StartExecute
    \/ CreateDirectory
    \/ MoveFile
    \/ FinishMoves
    \/ RemoveDuplicate
    \/ FinishExecute

Spec == Init /\ [][Next]_vars

(***************************************************************************)
(* The plan and the files it was made from.                                *)
(***************************************************************************)
\* the paths of the entries of the move plan, one for each entry
MoveSlots == {<<i, j>> \in (DOMAIN proposed_moves) \X (1..MaxFiles + 1) :
                 j <= Len(proposed_moves[i].items)}

MoveAt(slot) == proposed_moves[slot[1]].items[slot[2]]

\* how many entries of the move plan are for the path
TimesPlanned(path) == Cardinality({s \in MoveSlots : MoveAt(s).original_path = path})

\* the paths of the duplicate lists
DuplicatePaths ==
    UNION {{duplicates[i].items[j] : j \in DOMAIN duplicates[i].items} :
              i \in DOMAIN duplicates}

\* the skip entries of a path
SkipsOf(path) == {i \in DOMAIN skipped_files : skipped_files[i].path = path}

\* the files analyzed so far
Analyzed == 1..(pos - 1)

\* the file at index i was given a digest: it has metadata and MusicFile did
\* not raise
Hashed(i) ==
    /\ get_audio_metadata(files[i].tags) # NoMetadata
    /\ SkipsOf(PathOf(files[i])) = {}

\* the paths of the analyzed files that were given digest d, in traversal order
PathsWith(d) ==
    LET idx == SelectSeq([i \in Analyzed |-> i],
                         LAMBDA i : Hashed(i) /\ files[i].content = d)
    IN  [k \in DOMAIN idx |-> PathOf(files[idx[k]])]

\* the duplicate list keyed by d, empty when there is none
DuplicatesOf(d) ==
    IF \E i \in DOMAIN duplicates : duplicates[i].key = d
    THEN duplicates[CHOOSE i \in DOMAIN duplicates : duplicates[i].key = d].items
    ELSE <<>>

\* C1: for every digest, the first file found with it is in the move plan
\* exactly once, and the later ones are, in traversal order, the duplicate
\* list of the digest and are in no move list.
C1_FirstKeptRestDuplicates ==
    pc = "analyze" =>
        \A d \in Contents :
        \A paths \in {PathsWith(d)} :
            /\ DuplicatesOf(d) = (IF paths = <<>> THEN <<>> ELSE Tail(paths))
            /\ paths # <<>> =>
                  /\ TimesPlanned(paths[1]) = 1
                  /\ unique_files[d] = paths[1]
                  /\ \A k \in 2..Len(paths) : TimesPlanned(paths[k]) = 0

\* the analysis is over and some digest has a kept file and two duplicates
C1_Witness ==
    /\ pc = "analyze"
    /\ pos > Len(files)
    /\ \E d \in Contents :
          /\ Len(PathsWith(d)) = 3
          /\ Len(DuplicatesOf(d)) = 2
          /\ DuplicatesOf(d)[1] # DuplicatesOf(d)[2]

\* C2 as stated: a file whose artist tag is absent or empty is in no move
\* list and has exactly one skip entry, whose reason is the missing metadata.
C2_EmptyArtistSkipped ==
    \A i \in Analyzed :
        (files[i].tags.artist = None \/ files[i].tags.artist = <<>>) =>
            /\ TimesPlanned(PathOf(files[i])) = 0
            /\ Cardinality(SkipsOf(PathOf(files[i]))) = 1
            /\ \A k \in SkipsOf(PathOf(files[i])) : skipped_files[k].reason = MissingMetadata

\* the file of the traversal that is at the path
FileAt(path) == files[CHOOSE i \in DOMAIN files : PathOf(files[i]) = path]

\* the track number of a file: its tag up to a slash, empty for no tag
TrackNumberOf(f) == BeforeSlash(TagOr(f.tags, "tracknumber"))

\* C6 as stated: the proposed filename of a planned file is its track number
\* padded to 2 digits, " - ", its sanitized title and its extension when the
\* track number is not empty, and its sanitized title and its extension alone
\* when the track number is empty.
C6_ProposedFilename ==
    \A s \in MoveSlots :
    \A f \in {FileAt(MoveAt(s).original_path)} :
    \A ext \in {Lower(Splitext(f.filename).ext)} :
        MoveAt(s).new_filename =
            IF TrackNumberOf(f) # <<>>
            THEN Zfill2(TrackNumberOf(f)) \o <<" ", "-", " ">>
                     \o sanitize_filename(f.tags.title) \o ext
            ELSE sanitize_filename(f.tags.title) \o ext

(***************************************************************************)
(* The execution of the plan.                                              *)
(***************************************************************************)
\* the calls of the log that are renames, and those that succeeded
Renames == {i \in DOMAIN log : log[i].op = "rename"}

Renamed == {i \in Renames : log[i].ok}

Removes == {i \in DOMAIN log : log[i].op = "remove"}

\* the planned moves that did not happen and the planned deletions that did
\* not happen
NotMoved == {s \in MoveSlots :
                ~\E i \in Renamed : log[i].path = MoveAt(s).original_path}

NotDeleted == {p \in DuplicatePaths :
                  ~\E i \in Removes : log[i].ok /\ log[i].path = p}

\* C9 as stated: when execute_changes has returned, the error list holds one
\* entry for each planned file whose directory creation, move or deletion
\* failed; every planned deletion was attempted, and so was every planned
\* move into a directory that was created; the files that were moved are
\* where they were moved to.
C9_ErrorPerFailedFile ==
    pc = "done" =>
        /\ Len(results.errors) = Cardinality(NotMoved) + Cardinality(NotDeleted)
        /\ \A p \in DuplicatePaths : \E i \in Removes : log[i].path = p
        /\ \A s \in MoveSlots :
               \/ \E i \in Renames : log[i].path = MoveAt(s).original_path
               \/ \E i \in DOMAIN log :
                      /\ log[i].op = "makedirs"
                      /\ ~log[i].ok
                      /\ log[i].path = proposed_moves[s[1]].key
        /\ \A i \in Renamed : log[i].dest \in DOMAIN disk

\* C10: while and after the plan is executed, every digest that has a kept
\* file in the plan is the content of some file on disk; no rename was onto
\* a path that existed, and no path removed is one a file was renamed to.
C10_NoContentLost ==
    pc \in {"moves", "duplicates", "done"} =>
        /\ \A d \in DOMAIN unique_files : \E p \in DOMAIN disk : disk[p] = d
        /\ \A i \in Renamed : ~log[i].existed
        /\ \A i \in Removes : log[i].ok =>
               \A j \in Renamed : log[j].dest # log[i].path

\* the plan was executed: a kept file was moved to a numbered name because
\* the planned name existed, and a duplicate was removed
C10_Witness ==
    /\ pc = "done"
    /\ \E s \in MoveSlots : \E i \in Renamed :
          /\ log[i].path = MoveAt(s).original_path
          /\ log[i].dest # Join(proposed_moves[s[1]].key, MoveAt(s).new_filename)
    /\ \E i \in Removes : log[i].ok
    /\ \E i \in Renames : ~log[i].ok

\* C11 as stated: a step that records a file in the skip list, for missing
\* metadata or for an error while its MusicFile record is built, leaves the
\* artist mappings, the canonical cases and the album mappings as they were
\* before the file was processed.
C11_SkippedLeavesRegistry ==
    [][Len(skipped_files') > Len(skipped_files) => registry' = registry]_vars

====
